---- MODULE Spec2Model ----
(***************************************************************************)
(* Status screen builder of gitu (src/screen/status.rs).                   *)
(*                                                                         *)
(* The closure passed to Screen::new queries the git collaborators in a    *)
(* fixed order and chains the rows ("items") of the head section, the      *)
(* untracked and unmerged file sections, the two diff sections and the     *)
(* recent-commits section.  Each `?` in the closure is an early return.    *)
(***************************************************************************)
EXTENDS Integers, Sequences, FiniteSets, TLC

\* ------------------------------------------------------------------------
\* Bounds of the model
\* ------------------------------------------------------------------------
MaxFiles == 2       \* files reported by one status query
MaxDeltas == 2      \* deltas of one diff
MaxLog == 1         \* commit lines of the recent log
MaxFmtCount == 11   \* ahead / behind counts given to the formatter alone

\* ahead / behind counts reported to a whole build: zero and non-zero
BuildCounts == {0, 2}

\* Paths a status query reports: "f1.rs" .. "f<MaxFiles>.rs"
DeltaPaths == {"d.rs"}
LogLines == {"c0ffee fix"}
LocalNames == {"main"}
RemoteNames == {"origin/main"}
RebaseStates == {[head_name |-> "topic", onto |-> "base"]}
MergeStates == {[head |-> "feature"]}
Errors == {"E1", "E2"}

\* Option<T>: None is the empty tuple, Some(x) the one-element tuple.
None == <<>>
Some(x) == <<x>>
IsSome(o) == o # None
Unwrap(o) == o[1]

\* Res<T>
Ok(v) == [tag |-> "Ok", val |-> v]
Err(e) == [tag |-> "Err", err |-> e]
Panic == [tag |-> "Panic"]
NoResult == [tag |-> "None"]

\* ------------------------------------------------------------------------
\* Formatting
\* ------------------------------------------------------------------------
Digits == <<"0", "1", "2", "3", "4", "5", "6", "7", "8", "9">>

\* Display of an unsigned integer, as format!("{}") prints it.
RECURSIVE IntToStr(_)
IntToStr(n) ==
    IF n < 10 THEN Digits[n + 1]
    ELSE IntToStr(n \div 10) \o Digits[(n % 10) + 1]

\* ------------------------------------------------------------------------
\* Values returned by the collaborators
\* ------------------------------------------------------------------------
SeqsUpTo(S, n) == UNION {[1..k -> S] : k \in 0..n}

PathOf(i) == "f" \o IntToStr(i) \o ".rs"

\* The entries a status query can report for path i: untracked, unmerged or
\* neither (a path has one status code).
FileEntries(i) ==
    {f \in [path : {PathOf(i)}, is_untracked : BOOLEAN, is_unmerged : BOOLEAN] :
        ~(f.is_untracked /\ f.is_unmerged)}

\* The status lists: each path at most once, in the order the query returns
\* them, ascending or descending in the path.
FileListsOver(idx) ==
    {fs \in [1..Len(idx) -> UNION {FileEntries(i) : i \in 1..MaxFiles}] :
        \A k \in 1..Len(idx) : fs[k].path = PathOf(idx[k])}

Monotone(idx) ==
    \/ \A a, b \in 1..Len(idx) : a < b => idx[a] < idx[b]
    \/ \A a, b \in 1..Len(idx) : a < b => idx[a] > idx[b]

FileLists ==
    UNION {FileListsOver(idx) :
            idx \in {x \in SeqsUpTo(1..MaxFiles, MaxFiles) : Monotone(x)}}

BranchStatuses(counts) ==
    [local : {None} \cup {Some(l) : l \in LocalNames},
     remote : {None} \cup {Some(r) : r \in RemoteNames},
     ahead : counts,
     behind : counts]

\* Counts compare a local branch with its remote: without both they are zero.
BuildBranchStatuses ==
    {b \in BranchStatuses(BuildCounts) :
        (b.local = None \/ b.remote = None) => (b.ahead = 0 /\ b.behind = 0)}

Statuses == [files : FileLists, branch_status : BuildBranchStatuses]

Deltas == [path : DeltaPaths]
Diffs == [deltas : SeqsUpTo(Deltas, MaxDeltas)]
Logs == SeqsUpTo(LogLines, MaxLog)

\* ------------------------------------------------------------------------
\* Items
\* ------------------------------------------------------------------------
\* Item::default(): every field at its type's default.
ItemDefault ==
    [id |-> "", display |-> "", fg |-> "none", bold |-> FALSE,
     section |-> FALSE, depth |-> 0, unselectable |-> FALSE,
     target_data |-> None]

\* text.fg(CURRENT_THEME.<color>).bold()
Styled(item, text, color) ==
    [item EXCEPT !.display = text, !.fg = color, !.bold = TRUE]

\* items::blank_line()
blank_line == [ItemDefault EXCEPT !.display = "", !.depth = 0, !.unselectable = TRUE]

\* items::create_diff_items(diff, depth): per delta, in order, one row for
\* the delta at the base depth followed by its hunk rows one level deeper.
RECURSIVE create_diff_items(_, _)
create_diff_items(deltas, depth) ==
    IF deltas = <<>> THEN <<>>
    ELSE LET d == Head(deltas)
             deltaRow == [ItemDefault EXCEPT !.id = d.path, !.display = d.path,
                                             !.section = TRUE, !.depth = depth,
                                             !.target_data = Some(<<"Delta", d.path>>)]
             hunkRow(i) == [ItemDefault EXCEPT !.id = d.path \o "@" \o IntToStr(i),
                                               !.display = "@@ " \o IntToStr(i),
                                               !.section = TRUE, !.depth = depth + 1,
                                               !.target_data = Some(<<"Hunk", d.path, i>>)]
         IN  <<deltaRow, hunkRow(1)>>
                 \o create_diff_items(Tail(deltas), depth)

\* items::create_log_items(log): one row per line of the log text.
create_log_items(log) ==
    [i \in 1..Len(log) |->
        [ItemDefault EXCEPT !.id = log[i], !.display = log[i], !.depth = 1,
                            !.target_data = Some(<<"Commit", log[i]>>)]]

\* fn untracked(status)
untracked(status) ==
    LET kept == SelectSeq(status.files, LAMBDA file : file.is_untracked)
    IN  [i \in 1..Len(kept) |->
            [Styled(ItemDefault, kept[i].path, "unstaged_file")
                EXCEPT !.id = kept[i].path, !.depth = 1,
                       !.target_data = Some(<<"File", kept[i].path>>)]]

\* fn unmerged(status)
unmerged(status) ==
    LET kept == SelectSeq(status.files, LAMBDA file : file.is_unmerged)
    IN  [i \in 1..Len(kept) |->
            [Styled(ItemDefault, kept[i].path, "unmerged_file")
                EXCEPT !.id = kept[i].path, !.depth = 1,
                       !.target_data = Some(<<"File", kept[i].path>>)]]

\* Variant: the diverged text substitutes behind before ahead.
branch_status_remote_description_swapped(status, remote) ==
    [ItemDefault EXCEPT
        !.id = "branch_status",
        !.display =
            IF status.ahead = 0 /\ status.behind = 0 THEN
                "Your branch is up to date with '" \o remote \o "'."
            ELSE IF status.ahead > 0 /\ status.behind = 0 THEN
                "Your branch is ahead of '" \o remote \o "' by "
                    \o IntToStr(status.ahead) \o " commit."
            ELSE IF status.ahead = 0 /\ status.behind > 0 THEN
                "Your branch is behind '" \o remote \o "' by "
                    \o IntToStr(status.behind) \o " commit."
            ELSE
                "Your branch and '" \o remote \o "' have diverged,\nand have "
                    \o IntToStr(status.behind) \o " and " \o IntToStr(status.ahead)
                    \o " different commits each, respectively.",
        !.depth = 1,
        !.unselectable = TRUE]

\* fn branch_status_remote_description(status, remote)
branch_status_remote_description(status, remote) ==
    [ItemDefault EXCEPT
        !.id = "branch_status",
        !.display =
            IF status.ahead = 0 /\ status.behind = 0 THEN
                "Your branch is up to date with '" \o remote \o "'."
            ELSE IF status.ahead > 0 /\ status.behind = 0 THEN
                "Your branch is ahead of '" \o remote \o "' by "
                    \o IntToStr(status.ahead) \o " commit."
            ELSE IF status.ahead = 0 /\ status.behind > 0 THEN
                "Your branch is behind '" \o remote \o "' by "
                    \o IntToStr(status.behind) \o " commit."
            ELSE
                "Your branch and '" \o remote \o "' have diverged,\nand have "
                    \o IntToStr(status.ahead) \o " and " \o IntToStr(status.behind)
                    \o " different commits each, respectively.",
        !.depth = 1,
        !.unselectable = TRUE]

\* The (None, Some(_)) arm of branch_status_items: unreachable!() panics.
branch_status_unreachable(status) ==
    status.local = None /\ IsSome(status.remote)

\* Variant: the tracking row is left out when the branch is up to date.
branch_status_items_quiet(status) ==
    IF status.local = None /\ status.remote = None THEN
        <<[Styled(ItemDefault, "No branch", "section")
              EXCEPT !.id = "branch_status", !.section = TRUE, !.depth = 0]>>
    ELSE
        <<[Styled(ItemDefault, "On branch " \o Unwrap(status.local), "section")
              EXCEPT !.id = "branch_status", !.section = TRUE, !.depth = 0]>>
        \o (IF IsSome(status.remote) /\ (status.ahead > 0 \/ status.behind > 0)
            THEN <<[ItemDefault EXCEPT !.id = "branch_status", !.depth = 1,
                                       !.unselectable = TRUE]>>
            ELSE <<>>)

\* fn branch_status_items(status), for the arms that return.
branch_status_items(status) ==
    IF status.local = None /\ status.remote = None THEN
        <<[Styled(ItemDefault, "No branch", "section")
              EXCEPT !.id = "branch_status", !.section = TRUE, !.depth = 0]>>
    ELSE
        <<[Styled(ItemDefault, "On branch " \o Unwrap(status.local), "section")
              EXCEPT !.id = "branch_status", !.section = TRUE, !.depth = 0]>>
        \o (IF IsSome(status.remote)
            THEN <<branch_status_remote_description(status, Unwrap(status.remote))>>
            ELSE <<>>)

\* The Item built when a rebase is in progress.
rebase_status_item(rebase) ==
    [Styled(ItemDefault, "Rebasing " \o rebase.head_name \o " onto " \o rebase.onto,
            "section")
        EXCEPT !.id = "rebase_status"]

\* The Item built when a merge is in progress.
merge_status_item(merge) ==
    [Styled(ItemDefault, "Merging " \o merge.head, "section")
        EXCEPT !.id = "merge_status"]

\* Variant: the untracked header is chained whether or not there are rows.
untracked_header_always(rows) ==
    <<blank_line,
      [Styled(ItemDefault, "Untracked files", "section")
         EXCEPT !.id = "untracked", !.section = TRUE, !.depth = 0]>>

\* The header chained in front of the untracked rows.
untracked_header(rows) ==
    IF rows = <<>> THEN <<>>
    ELSE <<blank_line,
           [Styled(ItemDefault, "Untracked files", "section")
              EXCEPT !.id = "untracked", !.section = TRUE, !.depth = 0]>>

\* The header chained in front of the unmerged rows.
unmerged_header(rows) ==
    IF rows = <<>> THEN <<>>
    ELSE <<blank_line,
           [Styled(ItemDefault, "Unmerged", "section")
              EXCEPT !.id = "unmerged", !.section = TRUE, !.depth = 0]>>

\* Variant: the unmerged section is chained before the untracked one.
file_sections_unmerged_first(untrackedRows, unmergedRows) ==
    unmerged_header(unmergedRows) \o unmergedRows
        \o untracked_header(untrackedRows) \o untrackedRows

\* .chain(header).chain(untracked).chain(header).chain(unmerged)
file_sections(untrackedRows, unmergedRows) ==
    untracked_header(untrackedRows) \o untrackedRows
        \o unmerged_header(unmergedRows) \o unmergedRows

\* Variant: the header counts the flattened rows instead of the deltas.
create_status_section_items_rows(header, diff) ==
    (IF diff.deltas = <<>> THEN <<>>
     ELSE <<[ItemDefault EXCEPT !.display = "", !.unselectable = TRUE, !.depth = 0],
            [Styled(ItemDefault,
                    header \o " ("
                        \o IntToStr(Len(create_diff_items(diff.deltas, 1))) \o ")",
                    "section")
               EXCEPT !.id = header, !.section = TRUE, !.depth = 0]>>)
    \o create_diff_items(diff.deltas, 1)

\* fn create_status_section_items(header, diff)
create_status_section_items(header, diff) ==
    (IF diff.deltas = <<>> THEN <<>>
     ELSE <<[ItemDefault EXCEPT !.display = "", !.unselectable = TRUE, !.depth = 0],
            [Styled(ItemDefault,
                    header \o " (" \o IntToStr(Len(diff.deltas)) \o ")", "section")
               EXCEPT !.id = header, !.section = TRUE, !.depth = 0]>>)
    \o create_diff_items(diff.deltas, 1)

\* Variant: the log section is left out when the log yields no rows.
create_log_section_items_nonempty(header, log) ==
    IF create_log_items(log) = <<>> THEN <<>>
    ELSE <<[ItemDefault EXCEPT !.display = "", !.depth = 0, !.unselectable = TRUE],
           [Styled(ItemDefault, header, "section")
              EXCEPT !.id = header, !.section = TRUE, !.depth = 0]>>
         \o create_log_items(log)

\* fn create_log_section_items(header, log)
create_log_section_items(header, log) ==
    <<[ItemDefault EXCEPT !.display = "", !.depth = 0, !.unselectable = TRUE],
      [Styled(ItemDefault, header, "section")
         EXCEPT !.id = header, !.section = TRUE, !.depth = 0]>>
    \o create_log_items(log)

\* ------------------------------------------------------------------------
\* State
\* ------------------------------------------------------------------------
VARIABLES
    pc,         \* position of the build closure
    status,     \* local `status` (None until the status query returned)
    untrackedV, \* local `untracked`
    unmergedV,  \* local `unmerged`
    items,      \* the rows chained so far
    result,     \* what the closure returned
    trace       \* the collaborator calls made by this build, with their results

vars == <<pc, status, untrackedV, unmergedV, items, result, trace>>

Call(q, r) == [query |-> q, res |-> r]

Fresh ==
    /\ status = None
    /\ untrackedV = <<>>
    /\ unmergedV = <<>>
    /\ items = <<>>
    /\ result = NoResult
    /\ trace = <<>>

Init == pc = "status" /\ Fresh

\* Variant: a failing query ends the build with the rows chained so far.
Fail_partial(q, e) ==
    /\ pc' = "done"
    /\ result' = Ok(items)
    /\ trace' = Append(trace, Call(q, Err(e)))
    /\ UNCHANGED <<status, untrackedV, unmergedV, items>>

\* `?` on an Err: the closure returns the error and drops its locals.
Fail(q, e) ==
    /\ pc' = "done"
    /\ result' = Err(e)
    /\ trace' = Append(trace, Call(q, Err(e)))
    /\ UNCHANGED <<status, untrackedV, unmergedV, items>>

\* let status = git::status(&config.dir)?; untracked(..); unmerged(..)
QueryStatus ==
    /\ pc = "status"
    /\ \/ \E e \in Errors : Fail("status", e)
       \/ \E s \in Statuses :
            /\ status' = Some(s)
            /\ untrackedV' = untracked(s)
            /\ unmergedV' = unmerged(s)
            /\ trace' = Append(trace, Call("status", Ok(s)))
            /\ pc' = "rebase"
            /\ UNCHANGED <<items, result>>

\* Variant: the merge state is queried even when a rebase is in progress.
QueryRebaseStatus_eager ==
    /\ pc = "rebase"
    /\ \/ \E e \in Errors : Fail("rebase_status", e)
       \/ \E r \in {None} \cup {Some(x) : x \in RebaseStates} :
            /\ trace' = Append(trace, Call("rebase_status", Ok(r)))
            /\ items' = IF IsSome(r)
                         THEN <<rebase_status_item(Unwrap(r))>>
                                \o file_sections(untrackedV, unmergedV)
                         ELSE items
            /\ pc' = "merge"
            /\ UNCHANGED <<status, untrackedV, unmergedV, result>>

\* Variant: the branch-status rows follow the rebase row.
QueryRebaseStatus_with_branch ==
    /\ pc = "rebase"
    /\ \/ \E e \in Errors : Fail("rebase_status", e)
       \/ \E r \in {None} \cup {Some(x) : x \in RebaseStates} :
            /\ trace' = Append(trace, Call("rebase_status", Ok(r)))
            /\ IF IsSome(r)
               THEN /\ items' = <<rebase_status_item(Unwrap(r))>>
                                    \o (IF branch_status_unreachable(
                                                Unwrap(status).branch_status)
                                        THEN <<>>
                                        ELSE branch_status_items(
                                                Unwrap(status).branch_status))
                                    \o file_sections(untrackedV, unmergedV)
                    /\ pc' = "diff_unstaged"
               ELSE /\ items' = items
                    /\ pc' = "merge"
            /\ UNCHANGED <<status, untrackedV, unmergedV, result>>

\* if let Some(rebase) = git::rebase_status(&config.dir)?
QueryRebaseStatus ==
    /\ pc = "rebase"
    /\ \/ \E e \in Errors : Fail("rebase_status", e)
       \/ \E r \in {None} \cup {Some(x) : x \in RebaseStates} :
            /\ trace' = Append(trace, Call("rebase_status", Ok(r)))
            /\ IF IsSome(r)
               THEN /\ items' = <<rebase_status_item(Unwrap(r))>>
                                    \o file_sections(untrackedV, unmergedV)
                    /\ pc' = "diff_unstaged"
               ELSE /\ items' = items
                    /\ pc' = "merge"
            /\ UNCHANGED <<status, untrackedV, unmergedV, result>>

\* else if let Some(merge) = git::merge_status(&config.dir)?
QueryMergeStatus ==
    /\ pc = "merge"
    /\ \/ \E e \in Errors : Fail("merge_status", e)
       \/ \E m \in {None} \cup {Some(x) : x \in MergeStates} :
            /\ trace' = Append(trace, Call("merge_status", Ok(m)))
            /\ IF IsSome(m)
               THEN /\ items' = <<merge_status_item(Unwrap(m))>>
                                    \o file_sections(untrackedV, unmergedV)
                    /\ pc' = "diff_unstaged"
               ELSE /\ items' = items
                    /\ pc' = "branch"
            /\ UNCHANGED <<status, untrackedV, unmergedV, result>>

\* Variant: a remote without a local branch is shown as no head rows at all.
BranchStatusItems_recover ==
    /\ pc = "branch"
    /\ LET bs == Unwrap(status).branch_status
       IN  items' = (IF branch_status_unreachable(bs) THEN <<>>
                     ELSE branch_status_items(bs))
                        \o file_sections(untrackedV, unmergedV)
    /\ pc' = "diff_unstaged"
    /\ UNCHANGED <<status, untrackedV, unmergedV, result, trace>>

\* else { branch_status_items(&status.branch_status).into_iter() }
BranchStatusItems ==
    /\ pc = "branch"
    /\ LET bs == Unwrap(status).branch_status
       IN  IF branch_status_unreachable(bs)
           THEN /\ result' = Panic
                /\ pc' = "done"
                /\ items' = items
           ELSE /\ items' = branch_status_items(bs)
                                \o file_sections(untrackedV, unmergedV)
                /\ pc' = "diff_unstaged"
                /\ result' = result
    /\ UNCHANGED <<status, untrackedV, unmergedV, trace>>

\* .chain(create_status_section_items("Unstaged changes", &git::diff_unstaged(..)?))
QueryDiffUnstaged ==
    /\ pc = "diff_unstaged"
    /\ \/ \E e \in Errors : Fail("diff_unstaged", e)
       \/ \E d \in Diffs :
            /\ trace' = Append(trace, Call("diff_unstaged", Ok(d)))
            /\ items' = items \o create_status_section_items("Unstaged changes", d)
            /\ pc' = "diff_staged"
            /\ UNCHANGED <<status, untrackedV, unmergedV, result>>

\* .chain(create_status_section_items("Staged changes", &git::diff_staged(..)?))
QueryDiffStaged ==
    /\ pc = "diff_staged"
    /\ \/ \E e \in Errors : Fail("diff_staged", e)
       \/ \E d \in Diffs :
            /\ trace' = Append(trace, Call("diff_staged", Ok(d)))
            /\ items' = items \o create_status_section_items("Staged changes", d)
            /\ pc' = "log"
            /\ UNCHANGED <<status, untrackedV, unmergedV, result>>

\* .chain(create_log_section_items("Recent commits", &git::log_recent(..)?))
\* .collect(); Ok(items)
QueryLogRecent ==
    /\ pc = "log"
    /\ \/ \E e \in Errors : Fail("log_recent", e)
       \/ \E l \in Logs :
            /\ trace' = Append(trace, Call("log_recent", Ok(l)))
            /\ items' = items \o create_log_section_items("Recent commits", l)
            /\ result' = Ok(items')
            /\ pc' = "done"
            /\ UNCHANGED <<status, untrackedV, unmergedV>>

\* The screen refreshes: the closure runs again from scratch.
Refresh ==
    /\ pc = "done"
    /\ pc' = "status"
    /\ status' = None
    /\ untrackedV' = <<>>
    /\ unmergedV' = <<>>
    /\ items' = <<>>
    /\ result' = NoResult
    /\ trace' = <<>>

Next ==
    \/ QueryStatus
    \/ QueryRebaseStatus
    \/ QueryMergeStatus
    \/ BranchStatusItems
    \/ QueryDiffUnstaged
    \/ QueryDiffStaged
    \/ QueryLogRecent
    \/ Refresh

Spec == Init /\ [][Next]_vars

\* ------------------------------------------------------------------------
\* The branch-status formatter on its own: every branch status is an input.
\* ------------------------------------------------------------------------
InitBranch ==
    /\ pc = "call"
    /\ status \in {Some([files |-> <<>>, branch_status |-> b]) :
                        b \in BranchStatuses(0..MaxFmtCount)}
    /\ untrackedV = <<>>
    /\ unmergedV = <<>>
    /\ items = <<>>
    /\ result = NoResult
    /\ trace = <<>>

\* branch_status_items(&status.branch_status)
CallBranchStatusItems ==
    /\ pc = "call"
    /\ LET bs == Unwrap(status).branch_status
       IN  result' = IF branch_status_unreachable(bs) THEN Panic
                     ELSE Ok(branch_status_items(bs))
    /\ pc' = "ret_items"
    /\ UNCHANGED <<status, untrackedV, unmergedV, items, trace>>

\* branch_status_remote_description(status, remote)
CallRemoteDescription ==
    /\ pc = "call"
    /\ LET bs == Unwrap(status).branch_status
       IN  /\ IsSome(bs.remote)
           /\ result' = Ok(<<branch_status_remote_description(bs, Unwrap(bs.remote))>>)
    /\ pc' = "ret_description"
    /\ UNCHANGED <<status, untrackedV, unmergedV, items, trace>>

NextBranch == CallBranchStatusItems \/ CallRemoteDescription

SpecBranch == InitBranch /\ [][NextBranch]_vars

\* ------------------------------------------------------------------------
\* What a finished build was given and what it returned
\* ------------------------------------------------------------------------
Done == pc = "done"
Built == pc = "done" /\ result.tag = "Ok"
Rows == result.val

Asked(q) == \E i \in 1..Len(trace) : trace[i].query = q
AnsweredOk(q) ==
    \E i \in 1..Len(trace) : trace[i].query = q /\ trace[i].res.tag = "Ok"
Answer(q) == trace[CHOOSE i \in 1..Len(trace) : trace[i].query = q].res.val

GivenFiles == Answer("status").files
GivenBranch == Answer("status").branch_status
InRebase == IsSome(Answer("rebase_status"))
InMerge == ~InRebase /\ IsSome(Answer("merge_status"))

PathsOf(files) == [i \in 1..Len(files) |-> files[i].path]
UntrackedPaths == PathsOf(SelectSeq(GivenFiles, LAMBDA f : f.is_untracked))
UnmergedPaths == PathsOf(SelectSeq(GivenFiles, LAMBDA f : f.is_unmerged))

HeadIds == {"rebase_status", "merge_status", "branch_status"}

IsBlank(r) ==
    /\ r.display = ""
    /\ r.unselectable
    /\ r.depth = 0
    /\ ~r.section
    /\ r.target_data = None

IsHeader(r, label) ==
    /\ r.section
    /\ r.depth = 0
    /\ r.display = label
    /\ r.target_data = None

IsFileRow(r, path) ==
    /\ ~r.unselectable
    /\ ~r.section
    /\ r.depth = 1
    /\ r.display = path
    /\ r.target_data = Some(<<"File", path>>)

\* Rows each section is expected to take, from what the collaborators returned.
HeadLen ==
    IF InRebase \/ InMerge THEN 1
    ELSE IF IsSome(GivenBranch.remote) THEN 2 ELSE 1
FileLen(paths) == IF paths = <<>> THEN 0 ELSE 2 + Len(paths)
DiffLen(diff) ==
    IF diff.deltas = <<>> THEN 0 ELSE 2 + Len(create_diff_items(diff.deltas, 1))

UntrackedStart == HeadLen + 1
UnmergedStart == UntrackedStart + FileLen(UntrackedPaths)
UnstagedStart == UnmergedStart + FileLen(UnmergedPaths)

Slice(rows, from, n) == [i \in 1..n |-> rows[from + i - 1]]

NonEmptySections ==
    (IF UntrackedPaths = <<>> THEN 0 ELSE 1)
    + (IF UnmergedPaths = <<>> THEN 0 ELSE 1)
    + (IF Answer("diff_unstaged").deltas = <<>> THEN 0 ELSE 1)
    + (IF Answer("diff_staged").deltas = <<>> THEN 0 ELSE 1)
    + 1

BlankCount == Cardinality({i \in DOMAIN Rows : IsBlank(Rows[i])})

\* ------------------------------------------------------------------------
\* C1: a successful build has exactly one head section (the rebase row, else
\* the merge row, else the branch-status rows); it takes the first positions
\* and no row of the other two head sections occurs anywhere in the output.
\* ------------------------------------------------------------------------
C1_OneHeadSection ==
    Built =>
        LET headIdx == {i \in DOMAIN Rows : Rows[i].id \in HeadIds}
        IN  /\ headIdx # {}
            /\ headIdx = 1..Cardinality(headIdx)
            /\ \A i, j \in headIdx : Rows[i].id = Rows[j].id
            /\ IF InRebase THEN
                   /\ headIdx = {1}
                   /\ Rows[1].id = "rebase_status"
                   /\ Rows[1].display =
                        "Rebasing " \o Unwrap(Answer("rebase_status")).head_name
                            \o " onto " \o Unwrap(Answer("rebase_status")).onto
               ELSE IF InMerge THEN
                   /\ headIdx = {1}
                   /\ Rows[1].id = "merge_status"
                   /\ Rows[1].display =
                        "Merging " \o Unwrap(Answer("merge_status")).head
               ELSE
                   /\ Rows[1].id = "branch_status"
                   /\ Cardinality(headIdx) = HeadLen
                   /\ Rows[1].display =
                        IF GivenBranch.local = None THEN "No branch"
                        ELSE "On branch " \o Unwrap(GivenBranch.local)

C1_Witness ==
    /\ Built
    /\ InRebase
    /\ IsSome(GivenBranch.local)
    /\ IsSome(GivenBranch.remote)
    /\ UntrackedPaths # <<>>
    /\ Answer("diff_unstaged").deltas # <<>>
    /\ Rows[1].display = "Rebasing topic onto base"

InHeadSection(r) == r.id \in HeadIds
InFileSection(r, label, color) ==
    \/ IsBlank(r)
    \/ IsHeader(r, label)
    \/ (r.fg = color /\ r.depth = 1 /\ IsSome(r.target_data)
            /\ Unwrap(r.target_data)[1] = "File")
InDiffSection(r, label) ==
    \/ IsBlank(r)
    \/ (r.id = label /\ r.section /\ r.depth = 0)
    \/ (IsSome(r.target_data) /\ Unwrap(r.target_data)[1] \in {"Delta", "Hunk"})
InLogSection(r) ==
    \/ IsBlank(r)
    \/ IsHeader(r, "Recent commits")
    \/ (IsSome(r.target_data) /\ Unwrap(r.target_data)[1] = "Commit")

FileRowPaths(from, n) == [i \in 1..n |-> Rows[from + 1 + i].display]

C3_ErrorAbortsBuild ==
    /\ \A i \in 1..Len(trace) :
          trace[i].res.tag = "Err" =>
              /\ i = Len(trace)
              /\ pc = "done"
              /\ result = Err(trace[i].res.err)
    /\ result.tag = "Ok" => \A i \in 1..Len(trace) : trace[i].res.tag = "Ok"
    /\ result.tag = "Err" =>
          /\ Len(trace) > 0
          /\ trace[Len(trace)].res = result

C3_Witness ==
    /\ Done
    /\ Len(trace) = 5
    /\ trace[5] = Call("diff_staged", Err("E2"))
    /\ items # <<>>
    /\ result = Err("E2")

FileSectionOK(paths, label, color) ==
    LET headers == {i \in DOMAIN Rows : Rows[i].section /\ Rows[i].display = label}
        fileRows == {i \in DOMAIN Rows : Rows[i].fg = color}
    IN  IF paths = <<>> THEN headers = {} /\ fileRows = {}
        ELSE \E h \in headers :
                /\ headers = {h}
                /\ IsHeader(Rows[h], label)
                /\ h > 2
                /\ IsBlank(Rows[h - 1])
                /\ ~IsBlank(Rows[h - 2])
                /\ fileRows = (h + 1)..(h + Len(paths))
                /\ \A k \in 1..Len(paths) : IsFileRow(Rows[h + k], paths[k])

\* ------------------------------------------------------------------------
\* C4: the untracked (and the unmerged) section is absent when the status
\* query reports no such file, and otherwise is one blank separator, the
\* depth-0 header, then exactly one selectable depth-1 row per file carrying
\* the file's path as its action target.
\* ------------------------------------------------------------------------
C4_FileSections ==
    Built =>
        /\ FileSectionOK(UntrackedPaths, "Untracked files", "unstaged_file")
        /\ FileSectionOK(UnmergedPaths, "Unmerged", "unmerged_file")
        /\ BlankCount = NonEmptySections

C4_Witness ==
    /\ Built
    /\ Len(UntrackedPaths) = 2
    /\ UnmergedPaths = <<>>
    /\ IsBlank(Rows[UntrackedStart])
    /\ IsHeader(Rows[UntrackedStart + 1], "Untracked files")
    /\ IsFileRow(Rows[UntrackedStart + 2], UntrackedPaths[1])

\* ------------------------------------------------------------------------
\* C5: every successful build ends with the 'Recent commits' section: a
\* blank unselectable separator, the depth-0 header, then the rows of the log
\* flattener as the last rows; the header is the last row for an empty log.
\* ------------------------------------------------------------------------
C5_RecentCommitsAlways ==
    Built =>
        LET f == create_log_items(Answer("log_recent"))
            h == Len(Rows) - Len(f)
        IN  /\ h >= 2
            /\ IsBlank(Rows[h - 1])
            /\ IsHeader(Rows[h], "Recent commits")
            /\ Slice(Rows, h + 1, Len(f)) = f
            /\ {i \in DOMAIN Rows : Rows[i].display = "Recent commits"} = {h}

C5_Witness ==
    /\ Built
    /\ Answer("log_recent") = <<>>
    /\ IsHeader(Rows[Len(Rows)], "Recent commits")
    /\ IsBlank(Rows[Len(Rows) - 1])

DiffSectionOK(diff, label) ==
    LET headers == {i \in DOMAIN Rows : Rows[i].id = label}
        n == Len(diff.deltas)
        f == create_diff_items(diff.deltas, 1)
    IN  IF n = 0 THEN headers = {}
        ELSE \E h \in headers :
                /\ headers = {h}
                /\ h > 2
                /\ IsBlank(Rows[h - 1])
                /\ ~IsBlank(Rows[h - 2])
                /\ IsHeader(Rows[h], label \o " (" \o IntToStr(n) \o ")")
                /\ Len(Rows) >= h + Len(f)
                /\ Slice(Rows, h + 1, Len(f)) = f

\* ------------------------------------------------------------------------
\* C6: a diff with zero deltas gives no section; a diff with N >= 1 deltas
\* gives a blank unselectable separator, the depth-0 header '{label} ({N})'
\* and then the rows of the diff flattener at base depth 1.
\* ------------------------------------------------------------------------
C6_DiffSections ==
    Built =>
        /\ DiffSectionOK(Answer("diff_unstaged"), "Unstaged changes")
        /\ DiffSectionOK(Answer("diff_staged"), "Staged changes")
        /\ BlankCount = NonEmptySections

C6_Witness ==
    /\ Built
    /\ Len(Answer("diff_unstaged").deltas) = 2
    /\ Answer("diff_staged").deltas = <<>>
    /\ IsBlank(Rows[UnstagedStart])
    /\ Rows[UnstagedStart + 1].display = "Unstaged changes (2)"
    /\ Len(create_diff_items(Answer("diff_unstaged").deltas, 1)) > 2

FormatterInput == Unwrap(status).branch_status

IsBranchHeader(r, text) ==
    /\ r.id = "branch_status"
    /\ IsHeader(r, text)

OnBranchCases ==
    LET b == FormatterInput
    IN  /\ (IsSome(b.local) /\ b.remote = None) =>
              /\ result.tag = "Ok"
              /\ Len(Rows) = 1
              /\ IsBranchHeader(Rows[1], "On branch " \o Unwrap(b.local))
        /\ (IsSome(b.local) /\ IsSome(b.remote)) =>
              /\ result.tag = "Ok"
              /\ Len(Rows) = 2
              /\ IsBranchHeader(Rows[1], "On branch " \o Unwrap(b.local))
              /\ Rows[2].unselectable
              /\ Rows[2].depth = 1
              /\ ~Rows[2].section

\* ------------------------------------------------------------------------
\* C7 as stated: the formatter gives one unselectable row 'No branch' when
\* local and remote are absent, one header row 'On branch {local}' when only
\* local is present, and that header plus one unselectable depth-1 tracking
\* row when both are present.
\* ------------------------------------------------------------------------
C7_AsStated ==
    pc = "ret_items" =>
        /\ (FormatterInput.local = None /\ FormatterInput.remote = None) =>
              /\ result.tag = "Ok"
              /\ Len(Rows) = 1
              /\ Rows[1].display = "No branch"
              /\ Rows[1].unselectable
        /\ OnBranchCases

\* C7 (amended): the formatter gives exactly one row 'No branch' when local
\* and remote are absent, a depth-0 section header that is selectable (its
\* unselectable flag is not set); exactly one header row 'On branch {local}'
\* when only local is present; and that header followed by one unselectable
\* depth-1 tracking row when both are present.
C7_BranchStatusRows ==
    pc = "ret_items" =>
        /\ (FormatterInput.local = None /\ FormatterInput.remote = None) =>
              /\ result.tag = "Ok"
              /\ Len(Rows) = 1
              /\ IsBranchHeader(Rows[1], "No branch")
              /\ ~Rows[1].unselectable
        /\ OnBranchCases

C7_Witness ==
    /\ pc = "ret_items"
    /\ FormatterInput.local = None
    /\ FormatterInput.remote = None
    /\ FormatterInput.ahead = 3
    /\ result.tag = "Ok"
    /\ Rows[1].display = "No branch"

\* ------------------------------------------------------------------------
\* C8: the tracking row has one of four texts, chosen by which of ahead and
\* behind are zero, with ahead substituted before behind in the diverged
\* text and 'commit' singular for every count.
\* ------------------------------------------------------------------------
C8_TrackingText ==
    pc = "ret_description" =>
        LET b == FormatterInput
            remote == Unwrap(b.remote)
            text == Rows[1].display
        IN  /\ Len(Rows) = 1
            /\ (b.ahead = 0 /\ b.behind = 0) =>
                  text = "Your branch is up to date with '" \o remote \o "'."
            /\ (b.ahead > 0 /\ b.behind = 0) =>
                  text = "Your branch is ahead of '" \o remote \o "' by "
                            \o IntToStr(b.ahead) \o " commit."
            /\ (b.ahead = 0 /\ b.behind > 0) =>
                  text = "Your branch is behind '" \o remote \o "' by "
                            \o IntToStr(b.behind) \o " commit."
            /\ (b.ahead > 0 /\ b.behind > 0) =>
                  text = "Your branch and '" \o remote \o "' have diverged,\nand have "
                            \o IntToStr(b.ahead) \o " and " \o IntToStr(b.behind)
                            \o " different commits each, respectively."
            /\ (b.ahead = 3 /\ b.behind = 0 /\ remote = "origin/main") =>
                  text = "Your branch is ahead of 'origin/main' by 3 commit."
            /\ (b.ahead = 0 /\ b.behind = 10 /\ remote = "origin/main") =>
                  text = "Your branch is behind 'origin/main' by 10 commit."
            /\ (b.ahead = 2 /\ b.behind = 5 /\ remote = "origin/main") =>
                  text = "Your branch and 'origin/main' have diverged,\nand have 2 and 5 different commits each, respectively."

C8_Witness ==
    /\ pc = "ret_description"
    /\ FormatterInput.ahead = 2
    /\ FormatterInput.behind = 5
    /\ Rows[1].display =
          "Your branch and 'origin/main' have diverged,\nand have 2 and 5 different commits each, respectively."

ImpossibleBranch ==
    /\ AnsweredOk("status")
    /\ GivenBranch.local = None
    /\ IsSome(GivenBranch.remote)

NoOperationInProgress ==
    /\ AnsweredOk("rebase_status")
    /\ AnsweredOk("merge_status")
    /\ Answer("rebase_status") = None
    /\ Answer("merge_status") = None

\* ------------------------------------------------------------------------
\* C9 as stated: no build whose status query reported a remote without a
\* local branch returns a row sequence, whatever the rebase and merge state.
\* ------------------------------------------------------------------------
C9_AsStated == (Done /\ ImpossibleBranch) => result.tag # "Ok"

\* C9 (amended): a build whose status query reported a remote without a local
\* branch panics exactly when rebase_status and merge_status both returned
\* 'absent'; with a rebase or a merge in progress the branch status is not
\* inspected and the build goes on as usual.
C9_PanicOnlyWithoutOperation ==
    Done =>
        /\ (ImpossibleBranch /\ NoOperationInProgress) => result = Panic
        /\ result = Panic => (ImpossibleBranch /\ NoOperationInProgress)
        /\ (ImpossibleBranch /\ result.tag = "Ok") =>
              (InRebase \/ InMerge) /\ ~InHeadSection(Rows[2])

C9_Witness ==
    /\ Done
    /\ ImpossibleBranch
    /\ NoOperationInProgress
    /\ result = Panic
    /\ Len(trace) = 3

QueryAfter(call) ==
    IF call.query = "status" THEN "rebase_status"
    ELSE IF call.query = "rebase_status" THEN
        (IF call.res.val = None THEN "merge_status" ELSE "diff_unstaged")
    ELSE IF call.query = "merge_status" THEN "diff_unstaged"
    ELSE IF call.query = "diff_unstaged" THEN "diff_staged"
    ELSE IF call.query = "diff_staged" THEN "log_recent"
    ELSE "nothing"

\* ------------------------------------------------------------------------
\* C10: the queries are issued in the order status, rebase_status,
\* merge_status, diff_unstaged, diff_staged, log_recent, each only after the
\* earlier ones succeeded; merge_status is issued only when rebase_status
\* returned 'absent', and nothing is issued after a failing query.
\* ------------------------------------------------------------------------
C10_QueryOrder ==
    /\ Len(trace) >= 1 => trace[1].query = "status"
    /\ \A i \in 1..(Len(trace) - 1) :
          /\ trace[i].res.tag = "Ok"
          /\ trace[i + 1].query = QueryAfter(trace[i])
    /\ Asked("merge_status") =>
          AnsweredOk("rebase_status") /\ Answer("rebase_status") = None
    /\ Built =>
          /\ trace[Len(trace)].query = "log_recent"
          /\ Len(trace) = IF InRebase THEN 5 ELSE 6

C10_Witness ==
    /\ Built
    /\ InRebase
    /\ [i \in 1..Len(trace) |-> trace[i].query] =
          <<"status", "rebase_status", "diff_unstaged", "diff_staged", "log_recent">>

====
